---- MODULE Spec2Model ----
(***************************************************************************)
(* gosuploader: the uploader factory (NewUploader), the Local adapter on a *)
(* model file system, and the Qiniu / Aliyun / Tencent adapters on a model *)
(* object store.                                                           *)
(*                                                                         *)
(* A Go string is a sequence of characters.  Path characters are the       *)
(* one-character strings "/", ".", "_", letters, and multi-character       *)
(* tokens that hold neither a separator nor a dot (a formatted year, a     *)
(* formatted integer).  A []byte is a sequence of integers 0..255.  A      *)
(* base64 text is a sequence of one-character strings.                     *)
(***************************************************************************)
EXTENDS Integers, Sequences, FiniteSets, TLC

\* ------------------------------------------------------------------------
\* Bounds of the model
\* ------------------------------------------------------------------------
\* the number of upload calls in one behaviour
MaxUploads == 1
\* the number of Delete calls in one behaviour
MaxDeletes == 2

\* ------------------------------------------------------------------------
\* strings and path/filepath (Unix)
\* ------------------------------------------------------------------------
Sep == "/"
Dot == "."

Min(S) == CHOOSE x \in S : \A y \in S : x <= y

Max(S) == CHOOSE x \in S : \A y \in S : y <= x

\* strings.LastIndex for a one-character needle, 1-based, 0 when absent
LastIndex(s, c) ==
  LET I == {i \in 1..Len(s) : s[i] = c} IN IF I = {} THEN 0 ELSE Max(I)

HasSuffix(s, suf) ==
  /\ Len(suf) <= Len(s)
  /\ SubSeq(s, Len(s) - Len(suf) + 1, Len(s)) = suf

HasPrefix(s, pre) ==
  /\ Len(pre) <= Len(s)
  /\ SubSeq(s, 1, Len(pre)) = pre

TrimPrefix(s, pre) ==
  IF HasPrefix(s, pre) THEN SubSeq(s, Len(pre) + 1, Len(s)) ELSE s

TrimSuffix(s, suf) ==
  IF HasSuffix(s, suf) THEN SubSeq(s, 1, Len(s) - Len(suf)) ELSE s

\* filepath.Ext: the suffix from the last dot of the last path element
Ext(path) ==
  LET ld == LastIndex(path, Dot)
      ls == LastIndex(path, Sep)
  IN  IF ld > ls THEN SubSeq(path, ld, Len(path)) ELSE <<>>

RECURSIVE StripTrailingSeps(_)
StripTrailingSeps(s) ==
  IF s # <<>> /\ s[Len(s)] = Sep
  THEN StripTrailingSeps(SubSeq(s, 1, Len(s) - 1))
  ELSE s

\* filepath.Base
Base(path) ==
  IF path = <<>> THEN <<Dot>>
  ELSE LET p == StripTrailingSeps(path)
           q == SubSeq(p, LastIndex(p, Sep) + 1, Len(p))
       IN  IF q = <<>> THEN <<Sep>> ELSE q

\* the elements of a path between separators, empty elements dropped
RECURSIVE Elements(_)
Elements(s) ==
  IF s = <<>> THEN <<>>
  ELSE LET I == {i \in 1..Len(s) : s[i] = Sep} IN
       IF I = {} THEN <<s>>
       ELSE LET i == CHOOSE k \in I : \A j \in I : k <= j
                head == SubSeq(s, 1, i - 1)
                rest == Elements(SubSeq(s, i + 1, Len(s)))
            IN  IF head = <<>> THEN rest ELSE <<head>> \o rest

IsRooted(s) == s # <<>> /\ s[1] = Sep

DotDot == <<Dot, Dot>>

\* the element stack of filepath.Clean: "." dropped, ".." cancels the element
\* before it, is dropped at the root and kept at the front of a relative path
RECURSIVE CleanElems(_, _, _)
CleanElems(rooted, done, todo) ==
  IF todo = <<>> THEN done
  ELSE LET e == Head(todo)
           rest == Tail(todo)
       IN  IF e = <<Dot>> THEN CleanElems(rooted, done, rest)
           ELSE IF e = DotDot
           THEN IF done # <<>> /\ done[Len(done)] # DotDot
                THEN CleanElems(rooted, SubSeq(done, 1, Len(done) - 1), rest)
                ELSE IF rooted THEN CleanElems(rooted, done, rest)
                ELSE CleanElems(rooted, Append(done, e), rest)
           ELSE CleanElems(rooted, Append(done, e), rest)

\* strings.Join(elems, "/")
RECURSIVE JoinSep(_)
JoinSep(elems) ==
  IF elems = <<>> THEN <<>>
  ELSE IF Len(elems) = 1 THEN elems[1]
  ELSE elems[1] \o <<Sep>> \o JoinSep(Tail(elems))

\* filepath.Clean
Clean(path) ==
  LET es == CleanElems(IsRooted(path), <<>>, Elements(path))
      body == JoinSep(es)
  IN  IF IsRooted(path) THEN <<Sep>> \o body
      ELSE IF body = <<>> THEN <<Dot>> ELSE body

\* filepath.Join of two elements: empty elements are ignored, the result is
\* cleaned, and the join of nothing is the empty string
Join(a, b) ==
  IF a = <<>> /\ b = <<>> THEN <<>>
  ELSE IF a = <<>> THEN Clean(b)
  ELSE IF b = <<>> THEN Clean(a)
  ELSE Clean(a \o <<Sep>> \o b)

\* filepath.Rel(basepath, targpath): [ok, path]
Rel(basepath, targpath) ==
  LET base0 == Clean(basepath)
      targ == Clean(targpath)
      base == IF base0 = <<Dot>> THEN <<>> ELSE base0
      bE == Elements(base)
      tE == Elements(targ)
      Common == {k \in 0..Len(bE) :
                   k <= Len(tE) /\ \A i \in 1..k : bE[i] = tE[i]}
      k == Max(Common)
      rest == JoinSep(SubSeq(tE, k + 1, Len(tE)))
      ups == JoinSep([i \in 1..(Len(bE) - k) |-> DotDot])
  IN  IF targ = base0 THEN [ok |-> TRUE, path |-> <<Dot>>]
      ELSE IF IsRooted(base) # IsRooted(targ) THEN [ok |-> FALSE, path |-> <<>>]
      ELSE IF k < Len(bE) /\ k < Len(tE) /\ bE[k + 1] = DotDot
           THEN [ok |-> FALSE, path |-> <<>>]
      ELSE IF k < Len(bE)
           THEN [ok |-> TRUE,
                 path |-> IF rest = <<>> THEN ups ELSE ups \o <<Sep>> \o rest]
      ELSE [ok |-> TRUE, path |-> rest]

\* ------------------------------------------------------------------------
\* encoding/base64, StdEncoding
\* ------------------------------------------------------------------------
\* the alphabet of StdEncoding; a symbol's value is its index minus one
EncodeStd == <<
  "A", "B", "C", "D", "E", "F", "G", "H", "I", "J", "K", "L", "M", "N", "O", "P",
  "Q", "R", "S", "T", "U", "V", "W", "X", "Y", "Z", "a", "b", "c", "d", "e", "f",
  "g", "h", "i", "j", "k", "l", "m", "n", "o", "p", "q", "r", "s", "t", "u", "v",
  "w", "x", "y", "z", "0", "1", "2", "3", "4", "5", "6", "7", "8", "9", "+", "/" >>

PadChar == "="

IsSymbol(c) == \E i \in 1..Len(EncodeStd) : EncodeStd[i] = c

\* decodeMap
SymbolValue(c) == (CHOOSE i \in 1..Len(EncodeStd) : EncodeStd[i] = c) - 1

IsNewline(c) == c = "\n" \/ c = "\r"

\* decodeQuantum skips '\n' and '\r' wherever it reads a character
RECURSIVE StripNewlines(_)
StripNewlines(s) ==
  IF s = <<>> THEN <<>>
  ELSE IF IsNewline(Head(s)) THEN StripNewlines(Tail(s))
  ELSE <<Head(s)>> \o StripNewlines(Tail(s))

\* the bytes of one quantum of dlen symbols d (4 >= dlen >= 2): dlen - 1 bytes
QuantumBytes(d, dlen) ==
  LET v(i) == IF i <= dlen THEN SymbolValue(d[i]) ELSE 0
      val == v(1) * 262144 + v(2) * 4096 + v(3) * 64 + v(4)
      all == << val \div 65536, (val \div 256) % 256, val % 256 >>
  IN  SubSeq(all, 1, dlen - 1)

\* Decode's loop over decodeQuantum, on a text without newlines: [ok, data]
RECURSIVE DecodeQuanta(_)
DecodeQuanta(s) ==
  IF s = <<>> THEN [ok |-> TRUE, data |-> <<>>]
  ELSE
    LET J == {j \in 0..4 : j <= Len(s) /\ \A i \in 1..j : IsSymbol(s[i])}
        n == Max(J)
        corrupt == [ok |-> FALSE, data |-> <<>>]
    IN  IF n = 4
        THEN LET more == DecodeQuanta(SubSeq(s, 5, Len(s)))
             IN  IF more.ok
                 THEN [ok |-> TRUE, data |-> QuantumBytes(s, 4) \o more.data]
                 ELSE corrupt
        ELSE IF Len(s) = n THEN corrupt
        ELSE IF s[n + 1] # PadChar THEN corrupt
        ELSE IF n < 2 THEN corrupt
        ELSE IF n = 2
             THEN IF Len(s) = 4 /\ s[4] = PadChar
                  THEN [ok |-> TRUE, data |-> QuantumBytes(s, 2)]
                  ELSE corrupt
        ELSE IF Len(s) = 4
             THEN [ok |-> TRUE, data |-> QuantumBytes(s, 3)]
             ELSE corrupt

\* base64.StdEncoding.DecodeString
DecodeString(s) == DecodeQuanta(StripNewlines(s))

\* ------------------------------------------------------------------------
\* time and fmt
\* ------------------------------------------------------------------------
DecimalDigits == <<"0", "1", "2", "3", "4", "5", "6", "7", "8", "9">>

\* fmt's %d of a non-negative integer
RECURSIVE Itoa(_)
Itoa(n) ==
  IF n < 10 THEN <<DecimalDigits[n + 1]>>
  ELSE Itoa(n \div 10) \o <<DecimalDigits[(n % 10) + 1]>>

\* the readings of the wall clock (time.Now().UnixNano(), scaled); the last
\* one falls on the next day
ClockReadings == {1, 2}
Midnight == Max(ClockReadings)

\* time.Time.Format("2006/01/02") of the clock reading t
FormatDate(t) ==
  <<"2025", Sep, "07", Sep, IF t < Midnight THEN "01" ELSE "02">>

\* ------------------------------------------------------------------------
\* the file system under package os
\*   a node's name is the sequence of the elements of its absolute path; the
\*   file system maps the names of the nodes that exist to [dir, data]
\* ------------------------------------------------------------------------
Root == <<>>

\* the working directory of the process
Cwd == << <<"w">> >>

DirNode == [dir |-> TRUE, data |-> <<>>]
FileNode(data) == [dir |-> FALSE, data |-> data]

\* the node a path string names (the paths the adapter passes are cleaned)
Resolve(path) ==
  CleanElems(TRUE, <<>>,
             IF IsRooted(path) THEN Elements(path) ELSE Cwd \o Elements(path))

Prefixes(p) == {SubSeq(p, 1, n) : n \in 0..Len(p)}
ProperPrefixes(p) == {SubSeq(p, 1, n) : n \in 0..(Len(p) - 1)}

HasChildren(f, p) ==
  \E q \in DOMAIN f : Len(q) = Len(p) + 1 /\ SubSeq(q, 1, Len(p)) = p

\* a relative path is looked up from the working directory
Lookup(f, path) == IsRooted(path) \/ Cwd \in DOMAIN f

\* the errno of stat(2), "" when the node exists
StatErrno(f, path) ==
  LET p == Resolve(path) IN
  IF ~Lookup(f, path) THEN "ENOENT"
  ELSE IF p \in DOMAIN f THEN ""
  ELSE IF \E q \in ProperPrefixes(p) : q \in DOMAIN f /\ ~f[q].dir
       THEN "ENOTDIR"
  ELSE "ENOENT"

\* os.Remove: unlink(2), then rmdir(2): [errno, fs]
OsRemove(f, path) ==
  LET p == Resolve(path)
      last == IF Elements(path) = <<>> THEN <<>>
              ELSE Elements(path)[Len(Elements(path))]
      gone == [q \in DOMAIN f \ {p} |-> f[q]]
  IN  IF StatErrno(f, path) # ""
      THEN [errno |-> StatErrno(f, path), fs |-> f]
      ELSE IF ~f[p].dir THEN [errno |-> "", fs |-> gone]
      ELSE IF p = Root THEN [errno |-> "EBUSY", fs |-> f]
      ELSE IF last = <<Dot>> \/ last = DotDot
           THEN [errno |-> "EINVAL", fs |-> f]
      ELSE IF HasChildren(f, p) THEN [errno |-> "ENOTEMPTY", fs |-> f]
      ELSE [errno |-> "", fs |-> gone]

\* os.MkdirAll: every missing directory down to path is created; a file in
\* the way fails the call before anything is created: [errno, fs]
OsMkdirAll(f, path) ==
  LET p == Resolve(path) IN
  IF ~Lookup(f, path) THEN [errno |-> "ENOENT", fs |-> f]
  ELSE IF \E q \in Prefixes(p) : q \in DOMAIN f /\ ~f[q].dir
  THEN [errno |-> "ENOTDIR", fs |-> f]
  ELSE [errno |-> "",
        fs |-> [q \in DOMAIN f \cup Prefixes(p) |->
                  IF q \in DOMAIN f THEN f[q] ELSE DirNode]]

\* os.WriteFile, and os.Create followed by io.Copy: the file is created or
\* truncated and holds data: [errno, fs]
OsWriteFile(f, path, data) ==
  LET p == Resolve(path)
      parent == SubSeq(p, 1, Len(p) - 1)
  IN  IF p = Root THEN [errno |-> "EISDIR", fs |-> f]
      ELSE IF ~Lookup(f, path) \/ parent \notin DOMAIN f
           THEN [errno |-> StatErrno(f, path), fs |-> f]
      ELSE IF ~f[parent].dir THEN [errno |-> "ENOTDIR", fs |-> f]
      ELSE IF p \in DOMAIN f /\ f[p].dir THEN [errno |-> "EISDIR", fs |-> f]
      ELSE [errno |-> "",
            fs |-> [q \in DOMAIN f \cup {p} |->
                      IF q = p THEN FileNode(data) ELSE f[q]]]

\* ------------------------------------------------------------------------
\* errors
\*   the kinds of the errors the adapters return; "" is the nil error
\* ------------------------------------------------------------------------
NoError == ""
InvalidInput == "InvalidInput"
DecodeError == "DecodeError"
BackendError == "BackendError"
NotFound == "NotFound"

\* what a Local method returns, (string, error), and the file system after it
LocalResult(val, err, f) == [val |-> val, err |-> err, fs |-> f]

\* ------------------------------------------------------------------------
\* package local
\* ------------------------------------------------------------------------
DefaultBasePath == <<"storage", Sep, "uploads">>

\* local.New
LocalNew(cfg) ==
  [basePath |-> IF cfg.BasePath = <<>> THEN DefaultBasePath ELSE cfg.BasePath]

\* a generateFilePath that keeps the extension in the base name
LocalGenerateFilePathKeepsExt(u, f, originalName, t1, t2) ==
  LET dateDir == FormatDate(t1)
      storageDir == Join(u.basePath, dateDir)
      mk == OsMkdirAll(f, storageDir)
      ext == Ext(originalName)
      baseName == Base(originalName)
      uniqueName == baseName \o <<"_">> \o Itoa(t2) \o ext
  IN  IF mk.errno # "" THEN [path |-> <<>>, errno |-> mk.errno, fs |-> f]
      ELSE [path |-> Join(storageDir, uniqueName), errno |-> "", fs |-> mk.fs]

\* LocalUploader.generateFilePath; t1 and t2 are its two readings of the
\* clock: [path, errno, fs]
LocalGenerateFilePath(u, f, originalName, t1, t2) ==
  LET dateDir == FormatDate(t1)
      storageDir == Join(u.basePath, dateDir)
      mk == OsMkdirAll(f, storageDir)
      ext == Ext(originalName)
      baseName == TrimSuffix(Base(originalName), ext)
      uniqueName == baseName \o <<"_">> \o Itoa(t2) \o ext
  IN  IF mk.errno # "" THEN [path |-> <<>>, errno |-> mk.errno, fs |-> f]
      ELSE [path |-> Join(storageDir, uniqueName), errno |-> "", fs |-> mk.fs]

\* the tail of UploadFile and of UploadBinary: the relative path, or the
\* path itself when filepath.Rel fails
LocalRelPath(u, filePath) ==
  LET rel == Rel(u.basePath, filePath)
  IN  IF rel.ok THEN rel.path ELSE filePath

\* a *multipart.FileHeader: <<>> is the nil pointer, <<h>> points to
\* h = [Filename, content, opens], opens telling whether h.Open() succeeds
NilFile == <<>>

\* LocalUploader.UploadFile
LocalUploadFile(u, f, file, t1, t2) ==
  IF file = NilFile THEN LocalResult(<<>>, InvalidInput, f)
  ELSE IF ~file[1].opens THEN LocalResult(<<>>, BackendError, f)
  ELSE
    LET gen == LocalGenerateFilePath(u, f, file[1].Filename, t1, t2)
        wr == OsWriteFile(gen.fs, gen.path, file[1].content)
    IN  IF gen.errno # "" THEN LocalResult(<<>>, BackendError, gen.fs)
        ELSE IF wr.errno # "" THEN LocalResult(<<>>, BackendError, wr.fs)
        ELSE LocalResult(LocalRelPath(u, gen.path), NoError, wr.fs)

\* an UploadBinary that looks at the content after generateFilePath
LocalUploadBinaryLateCheck(u, f, filename, content, t1, t2) ==
  LET gen == LocalGenerateFilePath(u, f, filename, t1, t2)
      wr == OsWriteFile(gen.fs, gen.path, content)
  IN  IF gen.errno # "" THEN LocalResult(<<>>, BackendError, gen.fs)
      ELSE IF Len(content) = 0 THEN LocalResult(<<>>, InvalidInput, gen.fs)
      ELSE IF wr.errno # "" THEN LocalResult(<<>>, BackendError, wr.fs)
      ELSE LocalResult(LocalRelPath(u, gen.path), NoError, wr.fs)

\* LocalUploader.UploadBinary
LocalUploadBinary(u, f, filename, content, t1, t2) ==
  IF Len(content) = 0 THEN LocalResult(<<>>, InvalidInput, f)
  ELSE
    LET gen == LocalGenerateFilePath(u, f, filename, t1, t2)
        wr == OsWriteFile(gen.fs, gen.path, content)
    IN  IF gen.errno # "" THEN LocalResult(<<>>, BackendError, gen.fs)
        ELSE IF wr.errno # "" THEN LocalResult(<<>>, BackendError, wr.fs)
        ELSE LocalResult(LocalRelPath(u, gen.path), NoError, wr.fs)

\* an UploadBase64 that generates the file path before it decodes, as the
\* Qiniu adapter generates its key
LocalUploadBase64EagerPath(u, f, filename, base64Str, t1, t2) ==
  IF base64Str = <<>> THEN LocalResult(<<>>, InvalidInput, f)
  ELSE LET gen == LocalGenerateFilePath(u, f, filename, t1, t2)
           dec == DecodeString(base64Str)
       IN  IF gen.errno # "" THEN LocalResult(<<>>, BackendError, gen.fs)
           ELSE IF ~dec.ok THEN LocalResult(<<>>, DecodeError, gen.fs)
           ELSE LocalUploadBinary(u, gen.fs, filename, dec.data, t1, t2)

\* LocalUploader.UploadBase64
LocalUploadBase64(u, f, filename, base64Str, t1, t2) ==
  IF base64Str = <<>> THEN LocalResult(<<>>, InvalidInput, f)
  ELSE LET dec == DecodeString(base64Str)
       IN  IF ~dec.ok THEN LocalResult(<<>>, DecodeError, f)
           ELSE LocalUploadBinary(u, f, filename, dec.data, t1, t2)

\* a Delete that removes filePath, not fullPath
LocalDeleteRemovesRelative(u, f, filePath) ==
  LET fullPath == Join(u.basePath, filePath)
      rm == OsRemove(f, filePath)
  IN  IF StatErrno(f, fullPath) = "ENOENT"
      THEN LocalResult(<<>>, NotFound, f)
      ELSE IF rm.errno # "" THEN LocalResult(<<>>, BackendError, rm.fs)
      ELSE LocalResult(<<>>, NoError, rm.fs)

\* a Delete that takes a missing file for a deleted one
LocalDeleteIdempotent(u, f, filePath) ==
  LET fullPath == Join(u.basePath, filePath)
      rm == OsRemove(f, fullPath)
  IN  IF StatErrno(f, fullPath) = "ENOENT"
      THEN LocalResult(<<>>, NoError, f)
      ELSE IF rm.errno # "" THEN LocalResult(<<>>, BackendError, rm.fs)
      ELSE LocalResult(<<>>, NoError, rm.fs)

\* LocalUploader.Delete
LocalDelete(u, f, filePath) ==
  LET fullPath == Join(u.basePath, filePath)
      rm == OsRemove(f, fullPath)
  IN  IF StatErrno(f, fullPath) = "ENOENT"
      THEN LocalResult(<<>>, NotFound, f)
      ELSE IF rm.errno # "" THEN LocalResult(<<>>, BackendError, rm.fs)
      ELSE LocalResult(<<>>, NoError, rm.fs)

\* ------------------------------------------------------------------------
\* the object store behind the vendor SDKs
\*   a store maps the keys of the objects that exist to their bytes; ok is
\*   the outcome of the request (the network and the vendor's answer)
\* ------------------------------------------------------------------------
\* FormUploader.Put, Bucket.PutObject, Object.Put: [ok, store]
PutObject(st, key, data, ok) ==
  IF ok
  THEN [ok |-> TRUE,
        store |-> [k \in DOMAIN st \cup {key} |-> IF k = key THEN data ELSE st[k]]]
  ELSE [ok |-> FALSE, store |-> st]

\* BucketManager.Delete, Bucket.DeleteObject, Object.Delete: [ok, store]
DeleteObject(st, key, ok) ==
  IF ok
  THEN [ok |-> TRUE, store |-> [k \in DOMAIN st \ {key} |-> st[k]]]
  ELSE [ok |-> FALSE, store |-> st]

\* what a remote method returns, (string, error), the store after it and the
\* number of requests it sent
RemoteResult(val, err, st, net) ==
  [val |-> val, err |-> err, store |-> st, net |-> net]

Https == <<"https://">>

\* the object key of the Aliyun and Tencent adapters (generateObjectKey)
GenerateObjectKey(originalName, t1, t2) ==
  LET ext == Ext(originalName)
      baseName == TrimSuffix(Base(originalName), ext)
      datePath == FormatDate(t1)
      uniqueName == baseName \o <<"_">> \o Itoa(t2) \o ext
  IN  Join(datePath, uniqueName)

\* ------------------------------------------------------------------------
\* package qiniu
\* ------------------------------------------------------------------------
ConfigError == "ConfigError"

\* a New that does not look at the Bucket
QiniuNewNoBucketCheck(cfg, zoneOk) ==
  IF cfg.AccessKey = <<>> \/ cfg.SecretKey = <<>>
  THEN [ptr |-> <<>>, err |-> ConfigError, net |-> 0]
  ELSE [ptr |-> << [mac |-> [AccessKey |-> cfg.AccessKey,
                             SecretKey |-> cfg.SecretKey],
                    cfg |-> [Region |-> IF zoneOk THEN <<"z0">> ELSE <<>>,
                             UseHTTPS |-> TRUE, UseCdnDomains |-> FALSE],
                    bucket |-> cfg.Bucket,
                    domain |-> cfg.Domain] >>,
        err |-> NoError, net |-> 1]

\* qiniu.New: [ptr, err, net]; zoneOk is the outcome of storage.GetZone,
\* whose error New drops
QiniuNew(cfg, zoneOk) ==
  IF cfg.AccessKey = <<>> \/ cfg.SecretKey = <<>> \/ cfg.Bucket = <<>>
  THEN [ptr |-> <<>>, err |-> ConfigError, net |-> 0]
  ELSE [ptr |-> << [mac |-> [AccessKey |-> cfg.AccessKey,
                             SecretKey |-> cfg.SecretKey],
                    cfg |-> [Region |-> IF zoneOk THEN <<"z0">> ELSE <<>>,
                             UseHTTPS |-> TRUE, UseCdnDomains |-> FALSE],
                    bucket |-> cfg.Bucket,
                    domain |-> cfg.Domain] >>,
        err |-> NoError, net |-> 1]

\* qiniuUploader.generateUniqueKey; rnd is uuid.New().String()[:8]
QiniuGenerateUniqueKey(originalName, t, rnd) ==
  Itoa(t) \o <<"_">> \o rnd \o Ext(originalName)

\* a getFileURL that puts the bucket in the path
QiniuGetFileURLWithBucket(h, key) ==
  Https \o h.domain \o <<Sep>> \o h.bucket \o <<Sep>> \o key

\* qiniuUploader.getFileURL
QiniuGetFileURL(h, key) == Https \o h.domain \o <<Sep>> \o key

\* qiniuUploader.UploadBinary
QiniuUploadBinary(h, st, fileName, content, t, rnd, ok) ==
  IF fileName = <<>> THEN RemoteResult(<<>>, InvalidInput, st, 0)
  ELSE IF Len(content) = 0 THEN RemoteResult(<<>>, InvalidInput, st, 0)
  ELSE LET key == QiniuGenerateUniqueKey(fileName, t, rnd)
           put == PutObject(st, key, content, ok)
       IN  IF ~put.ok THEN RemoteResult(<<>>, BackendError, put.store, 1)
           ELSE RemoteResult(QiniuGetFileURL(h, key), NoError, put.store, 1)

\* qiniuUploader.UploadBase64
QiniuUploadBase64(h, st, fileName, base64Code, t, rnd, ok) ==
  IF fileName = <<>> THEN RemoteResult(<<>>, InvalidInput, st, 0)
  ELSE IF base64Code = <<>> THEN RemoteResult(<<>>, InvalidInput, st, 0)
  ELSE LET key == QiniuGenerateUniqueKey(fileName, t, rnd)
           dec == DecodeString(base64Code)
           put == PutObject(st, key, dec.data, ok)
       IN  IF ~dec.ok THEN RemoteResult(<<>>, DecodeError, st, 0)
           ELSE IF ~put.ok THEN RemoteResult(<<>>, BackendError, put.store, 1)
           ELSE RemoteResult(QiniuGetFileURL(h, key), NoError, put.store, 1)

\* qiniuUploader.UploadFile
QiniuUploadFile(h, st, fileHeader, t, rnd, ok) ==
  IF fileHeader = NilFile THEN RemoteResult(<<>>, InvalidInput, st, 0)
  ELSE IF ~fileHeader[1].opens THEN RemoteResult(<<>>, BackendError, st, 0)
  ELSE QiniuUploadBinary(h, st, fileHeader[1].Filename,
                         fileHeader[1].content, t, rnd, ok)

\* qiniuUploader.Delete
QiniuDelete(h, st, filePath, ok) ==
  IF filePath = <<>> THEN RemoteResult(<<>>, InvalidInput, st, 0)
  ELSE LET del == DeleteObject(st, filePath, ok)
       IN  IF ~del.ok THEN RemoteResult(<<>>, BackendError, del.store, 1)
           ELSE RemoteResult(<<>>, NoError, del.store, 1)

\* ------------------------------------------------------------------------
\* package aliyun
\* ------------------------------------------------------------------------
\* aliyun.New: [ptr, err, net]; clientOk and bucketOk are the outcomes of
\* oss.New and of Client.Bucket, neither of which sends a request
AliyunNew(cfg, clientOk, bucketOk) ==
  IF cfg.Endpoint = <<>> \/ cfg.AccessKeyID = <<>>
     \/ cfg.AccessKeySecret = <<>> \/ cfg.BucketName = <<>>
  THEN [ptr |-> <<>>, err |-> ConfigError, net |-> 0]
  ELSE IF ~clientOk THEN [ptr |-> <<>>, err |-> BackendError, net |-> 0]
  ELSE IF ~bucketOk THEN [ptr |-> <<>>, err |-> BackendError, net |-> 0]
  ELSE [ptr |-> << [client |-> cfg.Endpoint,
                    bucket |-> cfg.BucketName,
                    config |-> cfg,
                    endpoint |-> IF cfg.Domain # <<>>
                                 THEN Https \o cfg.Domain
                                 ELSE Https \o cfg.BucketName \o <<Dot>>
                                      \o cfg.Endpoint] >>,
        err |-> NoError, net |-> 0]

\* AliUploader.getFileURL
AliyunGetFileURL(u, objectKey) == u.endpoint \o <<Sep>> \o objectKey

\* AliUploader.UploadFile
AliyunUploadFile(u, st, file, t1, t2, ok) ==
  IF file = NilFile THEN RemoteResult(<<>>, InvalidInput, st, 0)
  ELSE IF ~file[1].opens THEN RemoteResult(<<>>, BackendError, st, 0)
  ELSE LET objectKey == GenerateObjectKey(file[1].Filename, t1, t2)
           put == PutObject(st, objectKey, file[1].content, ok)
       IN  IF ~put.ok THEN RemoteResult(<<>>, BackendError, put.store, 1)
           ELSE RemoteResult(AliyunGetFileURL(u, objectKey), NoError,
                             put.store, 1)

\* AliUploader.UploadBinary
AliyunUploadBinary(u, st, filename, content, t1, t2, ok) ==
  IF Len(content) = 0 THEN RemoteResult(<<>>, InvalidInput, st, 0)
  ELSE LET objectKey == GenerateObjectKey(filename, t1, t2)
           put == PutObject(st, objectKey, content, ok)
       IN  IF ~put.ok THEN RemoteResult(<<>>, BackendError, put.store, 1)
           ELSE RemoteResult(AliyunGetFileURL(u, objectKey), NoError,
                             put.store, 1)

\* AliUploader.UploadBase64
AliyunUploadBase64(u, st, filename, base64Str, t1, t2, ok) ==
  IF base64Str = <<>> THEN RemoteResult(<<>>, InvalidInput, st, 0)
  ELSE LET dec == DecodeString(base64Str)
       IN  IF ~dec.ok THEN RemoteResult(<<>>, DecodeError, st, 0)
           ELSE AliyunUploadBinary(u, st, filename, dec.data, t1, t2, ok)

\* AliUploader.Delete
AliyunDelete(u, st, objectKey, ok) ==
  IF objectKey = <<>> THEN RemoteResult(<<>>, InvalidInput, st, 0)
  ELSE LET del == DeleteObject(st, objectKey, ok)
       IN  IF ~del.ok THEN RemoteResult(<<>>, BackendError, del.store, 1)
           ELSE RemoteResult(<<>>, NoError, del.store, 1)

\* ------------------------------------------------------------------------
\* package tencent
\* ------------------------------------------------------------------------
\* tencent.New: [ptr, err, net]; parseOk is the outcome of url.Parse and
\* headOk that of the Bucket.Head request
TencentNew(cfg, parseOk, headOk) ==
  IF cfg.SecretID = <<>> \/ cfg.SecretKey = <<>>
     \/ cfg.BucketName = <<>> \/ cfg.Region = <<>>
  THEN [ptr |-> <<>>, err |-> ConfigError, net |-> 0]
  ELSE IF ~parseOk THEN [ptr |-> <<>>, err |-> BackendError, net |-> 0]
  ELSE IF ~headOk THEN [ptr |-> <<>>, err |-> BackendError, net |-> 1]
  ELSE [ptr |-> << [client |-> Https \o cfg.BucketName \o <<Dot, "cos", Dot>>
                               \o cfg.Region
                               \o <<Dot, "myqcloud", Dot, "com">>,
                    config |-> cfg] >>,
        err |-> NoError, net |-> 1]

\* a getFileURL that never uses the Domain
TencentGetFileURLNoDomain(u, objectKey) ==
  Https \o u.config.BucketName \o <<Dot, "cos", Dot>> \o u.config.Region
  \o <<Dot, "myqcloud", Dot, "com", Sep>> \o objectKey

\* TencentUploader.getFileURL
TencentGetFileURL(u, objectKey) ==
  IF u.config.Domain # <<>>
  THEN Https \o u.config.Domain \o <<Sep>> \o objectKey
  ELSE Https \o u.config.BucketName \o <<Dot, "cos", Dot>> \o u.config.Region
       \o <<Dot, "myqcloud", Dot, "com", Sep>> \o objectKey

\* TencentUploader.UploadFile
TencentUploadFile(u, st, file, t1, t2, ok) ==
  IF file = NilFile THEN RemoteResult(<<>>, InvalidInput, st, 0)
  ELSE IF ~file[1].opens THEN RemoteResult(<<>>, BackendError, st, 0)
  ELSE LET objectKey == GenerateObjectKey(file[1].Filename, t1, t2)
           put == PutObject(st, objectKey, file[1].content, ok)
       IN  IF ~put.ok THEN RemoteResult(<<>>, BackendError, put.store, 1)
           ELSE RemoteResult(TencentGetFileURL(u, objectKey), NoError,
                             put.store, 1)

\* TencentUploader.UploadBinary
TencentUploadBinary(u, st, filename, content, t1, t2, ok) ==
  IF Len(content) = 0 THEN RemoteResult(<<>>, InvalidInput, st, 0)
  ELSE LET objectKey == GenerateObjectKey(filename, t1, t2)
           put == PutObject(st, objectKey, content, ok)
       IN  IF ~put.ok THEN RemoteResult(<<>>, BackendError, put.store, 1)
           ELSE RemoteResult(TencentGetFileURL(u, objectKey), NoError,
                             put.store, 1)

\* TencentUploader.UploadBase64
TencentUploadBase64(u, st, filename, base64Str, t1, t2, ok) ==
  IF base64Str = <<>> THEN RemoteResult(<<>>, InvalidInput, st, 0)
  ELSE LET dec == DecodeString(base64Str)
       IN  IF ~dec.ok THEN RemoteResult(<<>>, DecodeError, st, 0)
           ELSE TencentUploadBinary(u, st, filename, dec.data, t1, t2, ok)

\* TencentUploader.Delete
TencentDelete(u, st, objectKey, ok) ==
  IF objectKey = <<>> THEN RemoteResult(<<>>, InvalidInput, st, 0)
  ELSE LET del == DeleteObject(st, objectKey, ok)
       IN  IF ~del.ok THEN RemoteResult(<<>>, BackendError, del.store, 1)
           ELSE RemoteResult(<<>>, NoError, del.store, 1)

\* ------------------------------------------------------------------------
\* package uploader: the factory
\* ------------------------------------------------------------------------
ErrInvalidConfig == "invalid config for uploader"
ErrUnsupportedType == "unsupported uploader type"

Local == "local"
Qiniu == "qiniu"
Aliyun == "aliyun"
Tencent == "tencent"

\* an interface value is its dynamic type and its value; the nil interface
\* has neither.  A pointer is <<>> (nil) or <<x>> (the address of x).
NilInterface == [typ |-> "", val |-> <<>>]

\* the conversion of a pointer of type typ to Uploader; the result holds the
\* type whatever the pointer is
ToUploader(typ, ptr) == [typ |-> typ, val |-> ptr]

\* what NewUploader returns, (Uploader, error), with the constructor it
\* called ("" when none) and the number of requests that one sent
NewResult(up, err, ctor, net) ==
  [up |-> up, err |-> err, ctor |-> ctor, net |-> net]

\* a type assertion that also accepts a pointer to a LocalConfig where a
\* LocalConfig is asked for
TypeAssertOrPointer(cfg, T) ==
  \/ cfg.typ = T
  \/ T = "config.LocalConfig" /\ cfg.typ = "*config.LocalConfig"

\* the ok of the type assertion cfg.(T): the dynamic type of cfg is T
TypeAssert(cfg, T) == cfg.typ = T

\* a NewUploader whose default case builds a Local uploader
NewUploaderDefaultLocal(t, cfg, env) ==
  IF t = Qiniu
  THEN IF ~TypeAssert(cfg, "config.QiniuConfig")
       THEN NewResult(NilInterface, ErrInvalidConfig, "", 0)
       ELSE LET r == QiniuNew(cfg.val, env.zoneOk)
            IN  NewResult(ToUploader("*qiniu.qiniuUploader", r.ptr),
                          r.err, "qiniu.New", r.net)
  ELSE IF t = Aliyun
  THEN IF ~TypeAssert(cfg, "config.AliyunConfig")
       THEN NewResult(NilInterface, ErrInvalidConfig, "", 0)
       ELSE LET r == AliyunNew(cfg.val, env.clientOk, env.bucketOk)
            IN  NewResult(ToUploader("*aliyun.AliUploader", r.ptr),
                          r.err, "aliyun.New", r.net)
  ELSE IF t = Tencent
  THEN IF ~TypeAssert(cfg, "config.TencentConfig")
       THEN NewResult(NilInterface, ErrInvalidConfig, "", 0)
       ELSE LET r == TencentNew(cfg.val, env.parseOk, env.headOk)
            IN  NewResult(ToUploader("*tencent.TencentUploader", r.ptr),
                          r.err, "tencent.New", r.net)
  ELSE IF ~TypeAssert(cfg, "config.LocalConfig")
       THEN NewResult(NilInterface, ErrInvalidConfig, "", 0)
       ELSE NewResult(ToUploader("*local.LocalUploader", <<LocalNew(cfg.val)>>),
                      NoError, "local.New", 0)

\* NewUploader; cfg is an interface{} value and env the outcomes of the
\* vendor calls the constructors make
NewUploader(t, cfg, env) ==
  IF t = Local
  THEN IF ~TypeAssert(cfg, "config.LocalConfig")
       THEN NewResult(NilInterface, ErrInvalidConfig, "", 0)
       ELSE NewResult(ToUploader("*local.LocalUploader", <<LocalNew(cfg.val)>>),
                      NoError, "local.New", 0)
  ELSE IF t = Qiniu
  THEN IF ~TypeAssert(cfg, "config.QiniuConfig")
       THEN NewResult(NilInterface, ErrInvalidConfig, "", 0)
       ELSE LET r == QiniuNew(cfg.val, env.zoneOk)
            IN  NewResult(ToUploader("*qiniu.qiniuUploader", r.ptr),
                          r.err, "qiniu.New", r.net)
  ELSE IF t = Aliyun
  THEN IF ~TypeAssert(cfg, "config.AliyunConfig")
       THEN NewResult(NilInterface, ErrInvalidConfig, "", 0)
       ELSE LET r == AliyunNew(cfg.val, env.clientOk, env.bucketOk)
            IN  NewResult(ToUploader("*aliyun.AliUploader", r.ptr),
                          r.err, "aliyun.New", r.net)
  ELSE IF t = Tencent
  THEN IF ~TypeAssert(cfg, "config.TencentConfig")
       THEN NewResult(NilInterface, ErrInvalidConfig, "", 0)
       ELSE LET r == TencentNew(cfg.val, env.parseOk, env.headOk)
            IN  NewResult(ToUploader("*tencent.TencentUploader", r.ptr),
                          r.err, "tencent.New", r.net)
  ELSE NewResult(NilInterface, ErrUnsupportedType, "", 0)

\* ------------------------------------------------------------------------
\* the Uploader interface: a call is dispatched on the dynamic type
\*   env = [t1, t2, rnd, ok]: the clock readings, the uuid prefix and the
\*   outcome of the request, for the adapters that use them
\*   the result is [val, err, fs, store, net, self]
\* ------------------------------------------------------------------------
\*   self is the receiver after the call: the methods assign to none of its
\*   fields
FromLocalCleansBasePath(u, r, st) ==
  [val |-> r.val, err |-> r.err, fs |-> r.fs, store |-> st, net |-> 0,
   self |-> [u EXCEPT !.basePath = Clean(u.basePath)]]

FromLocal(u, r, st) ==
  [val |-> r.val, err |-> r.err, fs |-> r.fs, store |-> st, net |-> 0,
   self |-> u]

FromRemote(u, r, f) ==
  [val |-> r.val, err |-> r.err, fs |-> f, store |-> r.store, net |-> r.net,
   self |-> u]

UploadFile(up, f, st, file, env) ==
  LET u == up.val[1] IN
  CASE up.typ = "*local.LocalUploader" ->
         FromLocal(u, LocalUploadFile(u, f, file, env.t1, env.t2), st)
    [] up.typ = "*qiniu.qiniuUploader" ->
         FromRemote(u, QiniuUploadFile(u, st, file, env.t1, env.rnd, env.ok), f)
    [] up.typ = "*aliyun.AliUploader" ->
         FromRemote(u, AliyunUploadFile(u, st, file, env.t1, env.t2, env.ok), f)
    [] up.typ = "*tencent.TencentUploader" ->
         FromRemote(u, TencentUploadFile(u, st, file, env.t1, env.t2, env.ok), f)

UploadBinary(up, f, st, filename, content, env) ==
  LET u == up.val[1] IN
  CASE up.typ = "*local.LocalUploader" ->
         FromLocal(u, LocalUploadBinary(u, f, filename, content, env.t1, env.t2),
                   st)
    [] up.typ = "*qiniu.qiniuUploader" ->
         FromRemote(u, QiniuUploadBinary(u, st, filename, content, env.t1,
                                      env.rnd, env.ok), f)
    [] up.typ = "*aliyun.AliUploader" ->
         FromRemote(u, AliyunUploadBinary(u, st, filename, content, env.t1,
                                       env.t2, env.ok), f)
    [] up.typ = "*tencent.TencentUploader" ->
         FromRemote(u, TencentUploadBinary(u, st, filename, content, env.t1,
                                        env.t2, env.ok), f)

UploadBase64(up, f, st, filename, base64Str, env) ==
  LET u == up.val[1] IN
  CASE up.typ = "*local.LocalUploader" ->
         FromLocal(u, LocalUploadBase64(u, f, filename, base64Str, env.t1,
                                     env.t2), st)
    [] up.typ = "*qiniu.qiniuUploader" ->
         FromRemote(u, QiniuUploadBase64(u, st, filename, base64Str, env.t1,
                                      env.rnd, env.ok), f)
    [] up.typ = "*aliyun.AliUploader" ->
         FromRemote(u, AliyunUploadBase64(u, st, filename, base64Str, env.t1,
                                       env.t2, env.ok), f)
    [] up.typ = "*tencent.TencentUploader" ->
         FromRemote(u, TencentUploadBase64(u, st, filename, base64Str, env.t1,
                                        env.t2, env.ok), f)

Delete(up, f, st, filepath, env) ==
  LET u == up.val[1] IN
  CASE up.typ = "*local.LocalUploader" ->
         FromLocal(u, LocalDelete(u, f, filepath), st)
    [] up.typ = "*qiniu.qiniuUploader" ->
         FromRemote(u, QiniuDelete(u, st, filepath, env.ok), f)
    [] up.typ = "*aliyun.AliUploader" ->
         FromRemote(u, AliyunDelete(u, st, filepath, env.ok), f)
    [] up.typ = "*tencent.TencentUploader" ->
         FromRemote(u, TencentDelete(u, st, filepath, env.ok), f)

\* ------------------------------------------------------------------------
\* the program: it calls NewUploader once and then, when that returned no
\* error, the Uploader's methods, until one of them returns an error
\* ------------------------------------------------------------------------
VARIABLES
  fs,        \* the file system
  store,     \* the objects of the remote bucket
  now,       \* the reading of the wall clock
  newArgs,   \* the NewUploader call: [t, cfg, env], its arguments and the
             \* outcomes of the vendor calls of the constructor
  ret,       \* what the NewUploader call returned
  called,    \* whether NewUploader was called
  hist,      \* the last two method calls, in order: arguments and results
  nUploads,  \* the number of upload calls made
  nDeletes,  \* the number of Delete calls made
  procs      \* the UploadBinary calls in flight on concurrent goroutines

vars ==
  <<fs, store, now, newArgs, ret, called, hist, nUploads, nDeletes, procs>>

NoCall ==
  [op |-> "", name |-> <<>>, content |-> <<>>, text |-> <<>>, t1 |-> 0,
   t2 |-> 0, val |-> <<>>, err |-> NoError, net |-> 0, failed |-> FALSE]

\* the last method call
Last == IF hist = <<>> THEN NoCall ELSE hist[Len(hist)]

\* ---- the values the program passes ----
RelBasePath == <<Dot, Sep, "t">>
AbsBasePath == <<Sep, "t">>

LocalConfigs ==
  {[typ |-> "config.LocalConfig", val |-> [BasePath |-> b]] :
     b \in {<<>>, RelBasePath, AbsBasePath}}

\* the remote configs: complete ones (Aliyun and Tencent with and without a
\* Domain) and the ones with one required field left empty
CustomDomain == <<"cdn", Dot, "example">>

QiniuComplete ==
  [AccessKey |-> <<"ak">>, SecretKey |-> <<"sk">>, Bucket |-> <<"bkt">>,
   Domain |-> CustomDomain, Region |-> <<>>]

QiniuRequired == {"AccessKey", "SecretKey", "Bucket"}

QiniuConfigs ==
  {[typ |-> "config.QiniuConfig", val |-> c] :
     c \in {QiniuComplete}
            \cup {[QiniuComplete EXCEPT ![k] = <<>>] : k \in QiniuRequired}}

AliyunComplete ==
  [Endpoint |-> <<"oss", Dot, "example">>, AccessKeyID |-> <<"id">>,
   AccessKeySecret |-> <<"sk">>, BucketName |-> <<"bkt">>, Domain |-> <<>>]

AliyunRequired ==
  {"Endpoint", "AccessKeyID", "AccessKeySecret", "BucketName"}

AliyunConfigs ==
  {[typ |-> "config.AliyunConfig", val |-> c] :
     c \in {AliyunComplete, [AliyunComplete EXCEPT !.Domain = CustomDomain]}
            \cup {[AliyunComplete EXCEPT ![k] = <<>>] : k \in AliyunRequired}}

TencentComplete ==
  [SecretID |-> <<"id">>, SecretKey |-> <<"sk">>, BucketName |-> <<"bkt">>,
   Region |-> <<"ap">>, Domain |-> CustomDomain]

TencentRequired == {"SecretID", "SecretKey", "BucketName", "Region"}

TencentConfigs ==
  {[typ |-> "config.TencentConfig", val |-> c] :
     c \in {TencentComplete, [TencentComplete EXCEPT !.Domain = <<>>]}
            \cup {[TencentComplete EXCEPT ![k] = <<>>] : k \in TencentRequired}}

\* the nil interface{} value
NilConfig == [typ |-> "", val |-> [none |-> TRUE]]

\* values of other dynamic types: a string, a pointer to a config, nil
OtherConfigs ==
  { [typ |-> "string", val |-> [str |-> <<"invalid config">>]],
    [typ |-> "*config.LocalConfig", val |-> [BasePath |-> RelBasePath]],
    NilConfig }

ConfigValues ==
  LocalConfigs \cup QiniuConfigs \cup AliyunConfigs \cup TencentConfigs
  \cup OtherConfigs

UploadTypes == {Local, Qiniu, Aliyun, Tencent, "unsupported", ""}

\* the outcomes before NewUploader is called
NoEnv ==
  [zoneOk |-> TRUE, clientOk |-> TRUE, bucketOk |-> TRUE, parseOk |-> TRUE,
   headOk |-> TRUE]

\* the outcomes of the vendor calls of the constructor of kind t
CtorEnvs(t) ==
  [zoneOk : IF t = Qiniu THEN BOOLEAN ELSE {TRUE},
   clientOk : IF t = Aliyun THEN BOOLEAN ELSE {TRUE},
   bucketOk : IF t = Aliyun THEN BOOLEAN ELSE {TRUE},
   parseOk : IF t = Tencent THEN BOOLEAN ELSE {TRUE},
   headOk : IF t = Tencent THEN BOOLEAN ELSE {TRUE}]

PlainName == <<"a", Dot, "t">>

Names ==
  { <<>>,
    PlainName,
    <<Sep>>,
    <<Dot, Dot>>,
    <<"d", Dot, "x", Sep, "a">> }

Contents == { <<104>>, <<104, 105>> }

\* the arguments of UploadBinary: [filename, content]
UploadBinaryArgs ==
  {[filename |-> n, content |-> <<104>>] : n \in Names}
  \cup {[filename |-> PlainName, content |-> c] : c \in Contents \cup {<<>>}}
  \cup {[filename |-> <<>>, content |-> <<>>]}

\* the arguments of UploadFile
FileHeaders ==
  {NilFile}
  \cup {<<[Filename |-> PlainName, content |-> c, opens |-> o]>> :
          c \in {<<104>>, <<>>}, o \in BOOLEAN}
  \cup {<<[Filename |-> n, content |-> <<104>>, opens |-> TRUE]>> :
          n \in {<<>>, <<Sep>>}}

Base64Texts ==
  { <<>>,
    <<"a", "A", "=", "=">>,
    <<"a", "G", "k", "=">>,
    <<"a", "G", "\n", "k", "=">>,
    <<"a", "H", "=", "=">>,
    <<"\n">>,
    <<"\r", "\n">>,
    <<"!">>,
    <<"a", "G">>,
    <<"a", "G", "k", "=", "a">> }

\* the arguments of UploadBase64: [filename, base64Str]
UploadBase64Args ==
  {[filename |-> PlainName, base64Str |-> b] : b \in Base64Texts}
  \cup {[filename |-> <<>>, base64Str |-> b] :
          b \in {<<>>, <<"a", "A", "=", "=">>, <<"\n">>, <<"!">>}}

UUIDs == { <<"0a1b2c3d">>, <<"9f8e7d6c">> }

IsLocal(up) == up.typ = "*local.LocalUploader"

IsQiniu(up) == up.typ = "*qiniu.qiniuUploader"

\* the environment of one upload call: its two clock readings, the first
\* of them now, the uuid it draws and the outcome of the request it sends
\* (only the Qiniu adapter draws a uuid, only the remote ones send requests)
MethodEnvs(up) ==
  [t1 : {now}, t2 : {t \in ClockReadings : t >= now},
   rnd : IF IsQiniu(up) THEN UUIDs ELSE {<<>>},
   ok : IF IsLocal(up) THEN {TRUE} ELSE BOOLEAN]

\* Delete reads no clock and draws no uuid
DeleteEnvs(up) ==
  [t1 : {now}, t2 : {now}, rnd : {<<>>},
   ok : IF IsLocal(up) THEN {TRUE} ELSE BOOLEAN]

\* extractKey of the tests: the URL without its scheme and its host
ExtractKey(url) ==
  LET u1 == TrimPrefix(url, <<"http://">>)
      u2 == TrimPrefix(u1, Https)
      seps == {i \in 1..Len(u2) : u2[i] = Sep}
  IN  IF seps = {} THEN u2
      ELSE SubSeq(u2, Min(seps) + 1, Len(u2))

\* a locator that climbs out of the base path
Climbing == <<Dot, Dot, Sep, Dot, Dot, Sep, "t">>

\* the arguments of Delete: fixed ones (a date shard and a climbing path
\* for Local), what the last upload returned, the same with an element
\* appended (Local) or without scheme and host (the remote adapters), and
\* the argument of the last Delete
DeleteArgs ==
  { <<>>, <<"n">> }
  \cup (IF IsLocal(ret.up) THEN {FormatDate(Midnight), Climbing} ELSE {})
  \cup (IF Last.op \notin {"", "Delete"}
        THEN {Last.val,
              IF IsLocal(ret.up) THEN Last.val \o <<Sep, "x">>
              ELSE ExtractKey(Last.val)}
        ELSE {})
  \cup (IF Last.op = "Delete" THEN {Last.text} ELSE {})

\* ---- the initial state ----
\* the working directory exists; RelBasePath is an empty directory and
\* AbsBasePath is taken by a regular file; the default base path is absent
InitialFileSystem ==
  LET dirs == {Root, Cwd, Cwd \o << <<"t">> >>}
      file == << <<"t">> >>
  IN  [p \in dirs \cup {file} |-> IF p = file THEN FileNode(<<1>>) ELSE DirNode]

Init ==
  /\ fs = InitialFileSystem
  /\ store = [k \in {} |-> <<>>]
  /\ now \in ClockReadings
  /\ newArgs = [t |-> "", cfg |-> NilConfig, env |-> NoEnv]
  /\ ret = NewResult(NilInterface, NoError, "", 0)
  /\ called = FALSE
  /\ hist = <<>>
  /\ nUploads = 0
  /\ nDeletes = 0
  /\ procs = <<>>

\* ---- the actions ----
\* up, err := uploader.NewUploader(t, cfg)
NewUploaderCall ==
  /\ ~called
  /\ \E t \in UploadTypes, cfg \in ConfigValues :
       \E env \in CtorEnvs(t) :
         /\ newArgs' = [t |-> t, cfg |-> cfg, env |-> env]
         /\ ret' = NewUploader(t, cfg, env)
  /\ called' = TRUE
  /\ UNCHANGED <<fs, store, now, hist, nUploads, nDeletes, procs>>

\* the program calls a method on an Uploader that was returned with a nil
\* error, and stops at the first method that returns an error
CanCall == called /\ ret.err = NoError /\ Last.err = NoError

\* the call has returned r
Returned(op, name, content, text, env, r) ==
  /\ hist' = (IF hist = <<>> THEN <<>> ELSE <<Last>>) \o
               <<[op |-> op, name |-> name, content |-> content,
                  text |-> text, t1 |-> env.t1, t2 |-> env.t2,
                  val |-> r.val, err |-> r.err, net |-> r.net,
                  failed |-> r.net > 0 /\ ~env.ok]>>
  /\ fs' = r.fs
  /\ store' = r.store
  /\ now' = env.t2
  /\ ret' = [ret EXCEPT !.up.val = <<r.self>>]
  /\ UNCHANGED <<newArgs, called, procs>>

\* path, err := up.UploadFile(file); the call is recorded with the name and
\* the content of the file and, as its text, "nil" for the nil pointer and
\* "unreadable" for a file that does not open
UploadFileCall ==
  /\ CanCall
  /\ nUploads < MaxUploads
  /\ \E file \in FileHeaders, env \in MethodEnvs(ret.up) :
       \E r \in {UploadFile(ret.up, fs, store, file, env)} :
         Returned("UploadFile",
                  IF file = NilFile THEN <<>> ELSE file[1].Filename,
                  IF file = NilFile THEN <<>> ELSE file[1].content,
                  IF file = NilFile THEN <<"nil">>
                  ELSE IF file[1].opens THEN <<>> ELSE <<"unreadable">>,
                  env, r)
  /\ nUploads' = nUploads + 1
  /\ UNCHANGED nDeletes

\* path, err := up.UploadBinary(filename, content)
UploadBinaryCall ==
  /\ CanCall
  /\ nUploads < MaxUploads
  /\ \E a \in UploadBinaryArgs, env \in MethodEnvs(ret.up) :
       \E r \in {UploadBinary(ret.up, fs, store, a.filename, a.content, env)} :
         Returned("UploadBinary", a.filename, a.content, <<>>, env, r)
  /\ nUploads' = nUploads + 1
  /\ UNCHANGED nDeletes

\* path, err := up.UploadBase64(filename, base64Str)
UploadBase64Call ==
  /\ CanCall
  /\ nUploads < MaxUploads
  /\ \E a \in UploadBase64Args, env \in MethodEnvs(ret.up) :
       \E r \in {UploadBase64(ret.up, fs, store, a.filename, a.base64Str,
                              env)} :
         Returned("UploadBase64", a.filename, <<>>, a.base64Str, env, r)
  /\ nUploads' = nUploads + 1
  /\ UNCHANGED nDeletes

\* err := up.Delete(filepath)
DeleteCall ==
  /\ CanCall
  /\ nDeletes < MaxDeletes
  /\ \E filepath \in DeleteArgs, env \in DeleteEnvs(ret.up) :
       \E r \in {Delete(ret.up, fs, store, filepath, env)} :
         Returned("Delete", <<>>, <<>>, filepath, env, r)
  /\ nDeletes' = nDeletes + 1
  /\ UNCHANGED nUploads

Next ==
  \/ NewUploaderCall
  \/ UploadFileCall
  \/ UploadBinaryCall
  \/ UploadBase64Call
  \/ DeleteCall

Spec == Init /\ [][Next]_vars

\* ------------------------------------------------------------------------
\* two goroutines that each call UploadBinary on one Local uploader
\*   a call takes its steps one system call or clock reading at a time;
\*   os.MkdirAll is one step, since it tolerates a directory made meanwhile
\*   and nothing is removed while the calls run; os.WriteFile is two, the
\*   open that creates or truncates the file and the write of the bytes
\* ------------------------------------------------------------------------
Procs == {1, 2}

\* the clock readings during the calls: two of one day and one of the next
ConcClock == {0} \cup ClockReadings

\* the file names the goroutines pass; two of them have the same last
\* element
ConcNames ==
  { PlainName, <<"b", Dot, "t">>, <<"d", Sep>> \o PlainName, <<Sep>> }

\* the content goroutine p passes
ConcContent(p) == IF p = 1 THEN <<104>> ELSE <<104, 105>>

\* a call that has not started
NewProc(filename, content) ==
  [pc |-> "start", filename |-> filename, content |-> content,
   storageDir |-> <<>>, t2 |-> 0, filePath |-> <<>>, val |-> <<>>,
   err |-> NoError]

ConcInit ==
  /\ fs = InitialFileSystem
  /\ store = [k \in {} |-> <<>>]
  /\ now \in ConcClock
  /\ \E cfg \in LocalConfigs :
       /\ newArgs = [t |-> Local, cfg |-> cfg, env |-> NoEnv]
       /\ ret = NewUploader(Local, cfg, NoEnv)
  /\ called = TRUE
  /\ hist = <<>>
  /\ nUploads = 0
  /\ nDeletes = 0
  /\ \E n1 \in ConcNames, n2 \in ConcNames :
       /\ n1 # n2
       /\ procs = [p \in Procs |->
                     NewProc(IF p = 1 THEN n1 ELSE n2, ConcContent(p))]

\* the clock advances
ConcTick ==
  /\ now < Max(ConcClock)
  /\ now' = now + 1
  /\ UNCHANGED <<fs, store, newArgs, ret, called, hist, nUploads, nDeletes,
                 procs>>

\* the call of p returns (val, err)
ConcReturn(p, val, err) ==
  procs' = [procs EXCEPT ![p].pc = "done", ![p].val = val, ![p].err = err]

\* UploadBinary's check of the content, and generateFilePath's first
\* reading of the clock
ConcReadDate(p) ==
  /\ procs[p].pc = "start"
  /\ IF Len(procs[p].content) = 0
     THEN ConcReturn(p, <<>>, InvalidInput)
     ELSE procs' = [procs EXCEPT
                      ![p].pc = "mkdir",
                      ![p].storageDir =
                         Join(ret.up.val[1].basePath, FormatDate(now))]
  /\ UNCHANGED <<fs, store, now, newArgs, ret, called, hist, nUploads,
                 nDeletes>>

\* generateFilePath's os.MkdirAll(storageDir, 0755)
ConcMkdirAll(p) ==
  /\ procs[p].pc = "mkdir"
  /\ \E mk \in {OsMkdirAll(fs, procs[p].storageDir)} :
       IF mk.errno # ""
       THEN ConcReturn(p, <<>>, BackendError) /\ fs' = fs
       ELSE procs' = [procs EXCEPT ![p].pc = "name"] /\ fs' = mk.fs
  /\ UNCHANGED <<store, now, newArgs, ret, called, hist, nUploads, nDeletes>>

\* a generateFilePath that leaves the base name out of the unique name
ConcReadNanoNoBase(p) ==
  /\ procs[p].pc = "name"
  /\ LET ext == Ext(procs[p].filename)
         uniqueName == <<"_">> \o Itoa(now) \o ext
     IN  procs' = [procs EXCEPT
                     ![p].pc = "open",
                     ![p].t2 = now,
                     ![p].filePath = Join(procs[p].storageDir, uniqueName)]
  /\ UNCHANGED <<fs, store, now, newArgs, ret, called, hist, nUploads,
                 nDeletes>>

\* generateFilePath's second reading of the clock and the path it returns
ConcReadNano(p) ==
  /\ procs[p].pc = "name"
  /\ LET ext == Ext(procs[p].filename)
         baseName == TrimSuffix(Base(procs[p].filename), ext)
         uniqueName == baseName \o <<"_">> \o Itoa(now) \o ext
     IN  procs' = [procs EXCEPT
                     ![p].pc = "open",
                     ![p].t2 = now,
                     ![p].filePath = Join(procs[p].storageDir, uniqueName)]
  /\ UNCHANGED <<fs, store, now, newArgs, ret, called, hist, nUploads,
                 nDeletes>>

\* os.WriteFile's open with O_WRONLY|O_CREATE|O_TRUNC
ConcOpen(p) ==
  /\ procs[p].pc = "open"
  /\ \E wr \in {OsWriteFile(fs, procs[p].filePath, <<>>)} :
       IF wr.errno # ""
       THEN ConcReturn(p, <<>>, BackendError) /\ fs' = fs
       ELSE procs' = [procs EXCEPT ![p].pc = "write"] /\ fs' = wr.fs
  /\ UNCHANGED <<store, now, newArgs, ret, called, hist, nUploads, nDeletes>>

\* a write of data at offset 0 of a file that holds old
WriteAt0(old, data) == data \o SubSeq(old, Len(data) + 1, Len(old))

\* os.WriteFile's write and close, and the tail of UploadBinary
ConcWrite(p) ==
  /\ procs[p].pc = "write"
  /\ LET node == Resolve(procs[p].filePath)
     IN  fs' = [fs EXCEPT
                  ![node] = FileNode(WriteAt0(fs[node].data,
                                              procs[p].content))]
  /\ ConcReturn(p, LocalRelPath(ret.up.val[1], procs[p].filePath), NoError)
  /\ UNCHANGED <<store, now, newArgs, ret, called, hist, nUploads, nDeletes>>

ConcNext ==
  \/ ConcTick
  \/ \E p \in Procs : ConcReadDate(p)
  \/ \E p \in Procs : ConcMkdirAll(p)
  \/ \E p \in Procs : ConcReadNano(p)
  \/ \E p \in Procs : ConcOpen(p)
  \/ \E p \in Procs : ConcWrite(p)

ConcSpec == ConcInit /\ [][ConcNext]_vars

\* ------------------------------------------------------------------------
\* the properties
\* ------------------------------------------------------------------------
\* the kinds NewUploader recognizes and the config struct each one takes
Kinds == {Local, Qiniu, Aliyun, Tencent}

ConfigTypeOf(t) ==
  CASE t = Local -> "config.LocalConfig"
    [] t = Qiniu -> "config.QiniuConfig"
    [] t = Aliyun -> "config.AliyunConfig"
    [] t = Tencent -> "config.TencentConfig"

\* the base path of the Local uploader NewUploader returned
BasePath == ret.up.val[1].basePath

\* the file system entry a locator names under the base path
StoredAt(locator) == Resolve(Join(BasePath, locator))

\* the step is an upload call, a Delete call; Last' is then that call
UploadStep == nUploads' = nUploads + 1
DeleteStep == nDeletes' = nDeletes + 1

\* C1: for a recognized kind and a config whose dynamic type is not exactly
\* that kind's config struct, NewUploader returns ErrInvalidConfig and a nil
\* Uploader, and no constructor is called and no request is sent.
WrongConfigTypeRejected ==
  called /\ newArgs.t \in Kinds /\ newArgs.cfg.typ # ConfigTypeOf(newArgs.t)
  => /\ ret.err = ErrInvalidConfig
     /\ ret.up = NilInterface
     /\ ret.ctor = ""
     /\ ret.net = 0

\* C1, witness: NewUploader(Qiniu, config.LocalConfig{...}) has returned
\* ErrInvalidConfig.
WrongConfigTypeSeen ==
  /\ called
  /\ newArgs.t = Qiniu
  /\ newArgs.cfg.typ = "config.LocalConfig"
  /\ ret.err = ErrInvalidConfig

\* C2: for a kind that is none of the four recognized ones, NewUploader
\* returns ErrUnsupportedType, never ErrInvalidConfig, and a nil Uploader,
\* whatever the config is.
UnsupportedTypeRejected ==
  called /\ newArgs.t \notin Kinds
  => /\ ret.err = ErrUnsupportedType
     /\ ret.err # ErrInvalidConfig
     /\ ret.up = NilInterface
     /\ ret.ctor = ""

\* C2, witness: NewUploader("unsupported", config.LocalConfig{...}) has
\* returned ErrUnsupportedType.
UnsupportedTypeSeen ==
  /\ called
  /\ newArgs.t = "unsupported"
  /\ newArgs.cfg.typ = "config.LocalConfig"
  /\ ret.err = ErrUnsupportedType

\* C3: whenever NewUploader returns a non-nil error, the Uploader it returns
\* compares equal to nil.
NoPartialConstruction ==
  called /\ ret.err # NoError => ret.up = NilInterface

\* C4: on the Local backend, a Delete of the locator that a successful
\* UploadBinary with a non-empty name has just returned succeeds and leaves
\* no file at basePath/locator, and a Delete of the same locator right after
\* that fails with not-found.
DeleteAfterUploadBinary ==
  [][ DeleteStep /\ IsLocal(ret.up)
      => /\ ( /\ Last.op = "UploadBinary"
              /\ Last.err = NoError
              /\ Last.name # <<>>
              /\ Last'.text = Last.val )
            => /\ Last'.err = NoError
               /\ StoredAt(Last.val) \in DOMAIN fs
               /\ StoredAt(Last.val) \notin DOMAIN fs'
         /\ ( /\ Len(hist) = 2
              /\ hist[1].op = "UploadBinary"
              /\ hist[1].err = NoError
              /\ hist[1].name # <<>>
              /\ hist[2].op = "Delete"
              /\ hist[2].text = hist[1].val
              /\ Last'.text = hist[1].val )
            => Last'.err = NotFound ]_vars

\* C4, witness: a Delete of the locator UploadBinary returned has succeeded
\* and the file is gone.
DeletedAfterUploadBinary ==
  /\ IsLocal(ret.up)
  /\ Len(hist) = 2
  /\ hist[1].op = "UploadBinary"
  /\ hist[1].err = NoError
  /\ hist[1].name = PlainName
  /\ hist[2].op = "Delete"
  /\ hist[2].text = hist[1].val
  /\ hist[2].err = NoError
  /\ StoredAt(hist[1].val) \notin DOMAIN fs

\* C5: on the Local backend, the locator a successful upload returns is the
\* path YYYY/MM/DD/<base>_<unixNano><ext>, relative to basePath and made of
\* the date of the call, the base name and the extension of the name given
\* and the clock reading of the call, and the file it names under basePath
\* holds exactly the bytes uploaded.
LocalLocatorForm ==
  IsLocal(ret.up) /\ Last.op \in {"UploadFile", "UploadBinary", "UploadBase64"}
                  /\ Last.err = NoError
  => LET ext == Ext(Last.name)
         base == TrimSuffix(Base(Last.name), ext)
         expected == FormatDate(Last.t1) \o <<Sep>> \o base \o <<"_">>
                       \o Itoa(Last.t2) \o ext
         bytes == IF Last.op = "UploadBase64"
                  THEN DecodeString(Last.text).data ELSE Last.content
     IN  /\ ~IsRooted(Last.val)
         /\ Elements(Last.val) = Elements(expected)
         /\ Len(Elements(Last.val)) = 4
         /\ StoredAt(Last.val) \in DOMAIN fs
         /\ fs[StoredAt(Last.val)] = FileNode(bytes)

\* C5, witness: UploadBinary("a.t", "hi") on the Local backend has returned
\* 2025/07/01/a_1.t.
LocalLocatorSeen ==
  /\ IsLocal(ret.up)
  /\ Last.op = "UploadBinary"
  /\ Last.name = PlainName
  /\ Last.content = <<104, 105>>
  /\ Last.err = NoError
  /\ Last.val = <<"2025", Sep, "07", Sep, "01", Sep, "a", "_", "1", Dot, "t">>

\* C6: on every backend, UploadBase64(name, s) with s valid standard base64
\* has the outcome of UploadBinary(name, the bytes s decodes to): the same
\* result, error and stored content, also when s is not empty and decodes to
\* no bytes.
Base64SameAsBinary ==
  called /\ ret.err = NoError
  => \A a \in UploadBase64Args, env \in MethodEnvs(ret.up) :
       DecodeString(a.base64Str).ok
       => UploadBase64(ret.up, fs, store, a.filename, a.base64Str, env)
          = UploadBinary(ret.up, fs, store, a.filename,
                         DecodeString(a.base64Str).data, env)

EmptyInputRejected ==
  [][ /\ UploadStep
      /\ \/ Last'.op = "UploadFile" /\ Last'.text = <<"nil">>
         \/ Last'.op = "UploadBinary" /\ Last'.content = <<>>
         \/ Last'.op = "UploadBase64" /\ Last'.text = <<>>
      => /\ Last'.err = InvalidInput
         /\ fs' = fs
         /\ store' = store
         /\ Last'.net = 0 ]_vars

\* C8, witness: UploadBinary("a.t", no bytes) on the Local backend has
\* returned an invalid-input error.
EmptyInputSeen ==
  /\ IsLocal(ret.up)
  /\ Last.op = "UploadBinary"
  /\ Last.name = PlainName
  /\ Last.content = <<>>
  /\ Last.err = InvalidInput

\* C9: on every backend, Local included, Delete with an empty locator
\* returns an invalid-input error and leaves the file system and the object
\* store as they were.
EmptyLocatorRejected ==
  [][ DeleteStep /\ Last'.text = <<>>
      => /\ Last'.err = InvalidInput
         /\ fs' = fs
         /\ store' = store
         /\ Last'.net = 0 ]_vars

\* C10: on the Local backend, a Delete of a locator whose path under
\* basePath does not exist returns an error and leaves the file system as it
\* was.
DeleteOfMissingFails ==
  [][ DeleteStep /\ IsLocal(ret.up) /\ StoredAt(Last'.text) \notin DOMAIN fs
      => Last'.err # NoError /\ fs' = fs ]_vars

\* C10, witness: Delete("n") on the Local backend, with a file stored and
\* none at n, has returned a not-found error.
DeleteOfMissingSeen ==
  /\ IsLocal(ret.up)
  /\ nUploads = 1
  /\ Last.op = "Delete"
  /\ Last.text = <<"n">>
  /\ Last.err = NotFound

\* both concurrent calls have returned
ConcDone == \A p \in Procs : procs # <<>> /\ procs[p].pc = "done"

\* the base path is a directory or can be made one
BasePathUsable ==
  StoredAt(<<>>) \in DOMAIN InitialFileSystem
  => InitialFileSystem[StoredAt(<<>>)].dir

\* the call of p succeeded and the file its locator names holds its content
ConcStored(p) ==
  /\ procs[p].err = NoError
  /\ StoredAt(procs[p].val) \in DOMAIN fs
  /\ fs[StoredAt(procs[p].val)] = FileNode(procs[p].content)

\* the date shard of a locator
Shard(locator) == SubSeq(Elements(locator), 1, 3)

IsUpload(c) == c.op \in {"UploadFile", "UploadBinary", "UploadBase64"}

\* the bytes an upload call was given
Uploaded(c) ==
  IF c.op = "UploadBase64" THEN DecodeString(c.text).data ELSE c.content

\* the host of the URLs of the remote uploader NewUploader returned: the
\* configured Domain or, without one, the host made of bucket, endpoint and
\* region
Host ==
  LET cfg == newArgs.cfg.val
  IN  IF cfg.Domain # <<>> \/ newArgs.t = Qiniu THEN cfg.Domain
      ELSE IF newArgs.t = Aliyun
      THEN cfg.BucketName \o <<Dot>> \o cfg.Endpoint
      ELSE cfg.BucketName \o <<Dot, "cos", Dot>> \o cfg.Region
           \o <<Dot, "myqcloud", Dot, "com">>

\* the part of an upload's locator after https://<host>/
KeyOf(c) == SubSeq(c.val, Len(Https \o Host) + 2, Len(c.val))

\* the locator of upload c is https://<host>/<key>
IsURL(c) == c.val = Https \o Host \o <<Sep>> \o KeyOf(c)

\* the key of upload c is YYYY/MM/DD/<base>_<unixNano><ext>
DateShardedKey(c) ==
  LET ext == Ext(c.name)
      base == TrimSuffix(Base(c.name), ext)
      expected == FormatDate(c.t1) \o <<Sep>> \o base \o <<"_">>
                    \o Itoa(c.t2) \o ext
  IN  /\ Elements(KeyOf(c)) = Elements(expected)
      /\ Len(Elements(KeyOf(c))) = 4

IsRemote == called /\ newArgs.t \in {Qiniu, Aliyun, Tencent}

\* C13: on a remote backend, right after a successful upload the URL it
\* returned, without scheme and host, is the key under which the uploaded
\* bytes are stored; a Delete of that key that succeeds removes the object,
\* and a Delete of the whole URL leaves it stored.
RemoteDeleteByKey ==
  [][ DeleteStep /\ IsRemote /\ IsUpload(Last) /\ Last.err = NoError
      => LET key == ExtractKey(Last.val)
         IN  /\ key \in DOMAIN store
             /\ store[key] = Uploaded(Last)
             /\ Last'.text = key /\ Last'.err = NoError
                => key \notin DOMAIN store'
             /\ Last'.text = Last.val
                => key \in DOMAIN store' /\ store'[key] = Uploaded(Last)
    ]_vars

\* C13, witness: on Aliyun, an upload and then a Delete of the URL without
\* scheme and host have succeeded, and the bucket is empty again.
RemoteDeletedByKey ==
  /\ called
  /\ newArgs.t = Aliyun
  /\ Len(hist) = 2
  /\ IsUpload(hist[1])
  /\ hist[1].err = NoError
  /\ hist[2].op = "Delete"
  /\ hist[2].text = ExtractKey(hist[1].val)
  /\ hist[2].text # hist[1].val
  /\ hist[2].err = NoError
  /\ DOMAIN store = {}

RequiredOf(t) ==
  CASE t = Qiniu -> QiniuRequired
    [] t = Aliyun -> AliyunRequired
    [] t = Tencent -> TencentRequired
    [] OTHER -> {}

\* NewUploader was called for a remote kind with that kind's config struct
RemoteConfigGiven == IsRemote /\ TypeAssert(newArgs.cfg, ConfigTypeOf(newArgs.t))

\* ... and one of the required fields is empty
MissingRequired ==
  RemoteConfigGiven /\ \E k \in RequiredOf(newArgs.t) : newArgs.cfg.val[k] = <<>>

\* ... or all are given and a vendor call of the constructor failed
CtorVendorFailed ==
  /\ RemoteConfigGiven
  /\ ~MissingRequired
  /\ \/ newArgs.t = Qiniu /\ ~newArgs.env.zoneOk
     \/ newArgs.t = Aliyun /\ ~(newArgs.env.clientOk /\ newArgs.env.bucketOk)
     \/ newArgs.t = Tencent /\ ~(newArgs.env.parseOk /\ newArgs.env.headOk)

\* C15: a failure of the file system or of the vendor is returned as a
\* non-nil error: a failed vendor call of the constructor (the Qiniu zone
\* lookup included), a failed request of a method, and an upload of the
\* Local adapter whose base path is a regular file.
FailuresAreReported ==
  [][/\ called' /\ CtorVendorFailed' => ret'.err # NoError
     /\ Last'.failed => Last'.err # NoError
     /\ UploadStep /\ IsLocal(ret.up) /\ StoredAt(<<>>) \in DOMAIN fs
        /\ ~fs[StoredAt(<<>>)].dir
        => Last'.err # NoError]_vars

\* C16: NewUploader for Qiniu, Aliyun or Tencent with a required field
\* empty returns the configuration error, whatever the vendor calls would
\* have answered, and sends no request.
IncompleteConfigRejected ==
  MissingRequired => ret.err = ConfigError /\ ret.net = 0

\* C16, witness: NewUploader was called for Qiniu with an empty Bucket while
\* the zone lookup would have failed.
IncompleteConfigSeen ==
  /\ MissingRequired
  /\ newArgs.t = Qiniu
  /\ newArgs.cfg.val.Bucket = <<>>
  /\ ~newArgs.env.zoneOk

\* C17: a Delete of the Local adapter whose locator resolves to a
\* directory, empty or not, returns an error and leaves the file system as
\* it was.
DirectoryDeleteRefused ==
  [][DeleteStep /\ IsLocal(ret.up) /\ StoredAt(Last'.text) \in DOMAIN fs
     /\ fs[StoredAt(Last'.text)].dir
     => Last'.err # NoError /\ fs' = fs]_vars

\* the entries a step removes from the file system
Removed == DOMAIN fs \ DOMAIN fs'

\* entry p lies strictly below directory d
StrictlyInside(p, d) == Len(p) > Len(d) /\ SubSeq(p, 1, Len(d)) = d

\* C18: a Delete of the Local adapter removes at most one entry, and that
\* entry lies strictly inside the base path; nothing outside the base path
\* and not the base path itself is removed, and nothing else is changed.
DeleteStaysInsideBasePath ==
  [][DeleteStep /\ IsLocal(ret.up)
     => /\ Cardinality(Removed) <= 1
        /\ \A p \in Removed : StrictlyInside(p, StoredAt(<<>>))
        /\ \A p \in DOMAIN fs \ Removed : p \in DOMAIN fs' /\ fs'[p] = fs[p]
        /\ DOMAIN fs' \subseteq DOMAIN fs]_vars

====
